---------------------------- MODULE Spec2Model ----------------------------
(***************************************************************************)
(* Model of the feed normalisation / mapping engine of RSS_scaner:         *)
(*   generic_rss_scanner.py      load_mapping, clean_text, extract_field,  *)
(*                               parse_articles, main                      *)
(*   mapping_strategy_helper.py  suggest_mapping, interactive_mapping,     *)
(*                               update_json_mapping_file,                 *)
(*                               analyze_and_suggest, main                 *)
(*                                                                         *)
(* Python strings whose characters matter (field values, delimiters, tag   *)
(* names under the regular expressions) are sequences of one-character     *)
(* strings.  Names that are only compared for equality (dictionary keys,   *)
(* feed ids, canonical fields) are TLA+ strings; Spell gives the           *)
(* characters of a tag name where a pattern is matched against it.         *)
(***************************************************************************)
EXTENDS Naturals, Sequences, FiniteSets, TLC

VARIABLES
    ex,       \* one call of extract_field: its arguments and its outcome
    sc,       \* one run of generic_rss_scanner.main: arguments and outcome
    reports,  \* number of report files written by save_report
    file,     \* the mapping store file column_mapping.json
    file0,    \* the store file as it was before any run
    sg,       \* one call of suggest_mapping: its argument and its result
    hpc,      \* helper processes: position in mapping_strategy_helper.main
    hs,       \* helper processes: locals of a run (HIdle between runs)
    trace,    \* history of the persistence steps taken so far
    ct        \* clean_text: its argument, its result, the result cleaned again

vars == <<ex, sc, reports, file, file0, sg, hpc, hs, trace, ct>>

---------------------------------------------------------------------------
(* Bounds of the model.                                                    *)

\* longest list a feed item holds under one tag
MaxList == 2
\* most entries of a parsed feed
MaxEntries == 2
\* most tags discovered in a sample item
MaxTags == 5
\* most calls of update_json_mapping_file in one behaviour
MaxCalls == 2
\* most characters of a text given to clean_text
MaxText == 5

---------------------------------------------------------------------------
(* Python values an item can hold under a tag: a string, a list of         *)
(* strings/None, None, or nothing at all (the key is absent).              *)

PStr(s)  == [t |-> "str",  s |-> s,    l |-> <<>>]
PList(l) == [t |-> "list", s |-> <<>>, l |-> l]
PNone    == [t |-> "none", s |-> <<>>, l |-> <<>>]
Absent   == [t |-> "absent", s |-> <<>>, l |-> <<>>]

\* bool(v)
Truthy(v) ==
    CASE v.t = "str"  -> v.s # <<>>
      [] v.t = "list" -> v.l # <<>>
      [] OTHER        -> FALSE

\* a or b
PyOr(a, b) == IF Truthy(a) THEN a ELSE b

Min(S) == CHOOSE x \in S : \A y \in S : x <= y

RECURSIVE Concat(_)
Concat(ss) == IF ss = <<>> THEN <<>> ELSE Head(ss) \o Concat(Tail(ss))

\* delim.join(ss)
RECURSIVE Join(_, _)
Join(delim, ss) ==
    IF ss = <<>> THEN <<>>
    ELSE IF Len(ss) = 1 THEN ss[1]
    ELSE ss[1] \o delim \o Join(delim, Tail(ss))

\* repr of a string without quotes or backslashes: '...' with \n escaped
ReprStr(s) ==
    <<"'">> \o Concat([i \in 1..Len(s) |->
                          IF s[i] = "\n" THEN <<"\\", "n">> ELSE <<s[i]>>])
            \o <<"'">>

NoneText == <<"N", "o", "n", "e">>

Repr(v) == IF v.t = "str" THEN ReprStr(v.s) ELSE NoneText

\* str(v)
Str(v) ==
    CASE v.t = "str"  -> v.s
      [] v.t = "list" -> <<"[">> \o Join(<<",", " ">>,
                                         [i \in 1..Len(v.l) |-> Repr(v.l[i])])
                                 \o <<"]">>
      [] OTHER        -> NoneText

---------------------------------------------------------------------------
(* clean_text                                                              *)

Whitespace == {" ", "\n"}

\* re.sub(r'<[^>]+>', '', s): leftmost matches, each from a '<' that is not
\* directly followed by '>' up to the first '>' after it
RECURSIVE RemoveTags(_)
RemoveTags(s) ==
    IF s = <<>> THEN <<>>
    ELSE LET closers == {j \in 3..Len(s) : s[j] = ">"} IN
         IF s[1] = "<" /\ Len(s) >= 3 /\ s[2] # ">" /\ closers # {}
         THEN RemoveTags(SubSeq(s, Min(closers) + 1, Len(s)))
         ELSE <<s[1]>> \o RemoveTags(Tail(s))

RECURSIVE DropLeadingWs(_)
DropLeadingWs(s) ==
    IF s # <<>> /\ Head(s) \in Whitespace THEN DropLeadingWs(Tail(s)) ELSE s

\* re.sub(r'\s+', ' ', s)
RECURSIVE CollapseWs(_)
CollapseWs(s) ==
    IF s = <<>> THEN <<>>
    ELSE IF Head(s) \in Whitespace
         THEN <<" ">> \o CollapseWs(DropLeadingWs(s))
         ELSE <<Head(s)>> \o CollapseWs(Tail(s))

RECURSIVE DropTrailingWs(_)
DropTrailingWs(s) ==
    IF s # <<>> /\ s[Len(s)] \in Whitespace
    THEN DropTrailingWs(SubSeq(s, 1, Len(s) - 1))
    ELSE s

\* s.strip()
Strip(s) == DropTrailingWs(DropLeadingWs(s))

\* mutant of clean_text: the text is stripped before the markup is removed
clean_text_stripping_first(text) ==
    LET t0 == IF Truthy(text) THEN text.s ELSE <<>>
    IN  CollapseWs(RemoveTags(Strip(t0)))

\* clean_text(text), text a string or None
clean_text(text) ==
    LET t0 == IF Truthy(text) THEN text.s ELSE <<>>
        t1 == RemoveTags(t0)
        t2 == CollapseWs(t1)
    IN  Strip(t2)

---------------------------------------------------------------------------
(* Feed items.  kind says which lookups the item supports:                 *)
(*   "fpdict"  feedparser's FeedParserDict: a dict whose keys are also     *)
(*             attributes                                                  *)
(*   "dict"    a raw dict: keys only                                       *)
(*   "object"  an attribute-bearing object: attributes only                *)
(*   "none"    no item (None)                                              *)
(* f gives the value under each tag, Absent where the item has none.       *)
(* Tag names are taken not to collide with dict method names.              *)

IsDict(entry)   == entry.kind \in {"fpdict", "dict"}
\* what the item holds under the tag; Absent for a tag it does not know
ValueAt(entry, tag) ==
    IF tag \in DOMAIN entry.f THEN entry.f[tag] ELSE Absent
HasAttr(entry, tag) ==
    entry.kind \in {"fpdict", "object"} /\ ValueAt(entry, tag) # Absent
\* getattr(entry, tag, None)
GetAttr(entry, tag) == IF HasAttr(entry, tag) THEN ValueAt(entry, tag) ELSE PNone
\* tag in entry (for a dict)
HasKey(entry, tag)  == IsDict(entry) /\ ValueAt(entry, tag) # Absent
\* entry.get(tag)
DictGet(entry, tag) == IF HasKey(entry, tag) THEN ValueAt(entry, tag) ELSE PNone

---------------------------------------------------------------------------
(* Rules of the mapping store: the JSON value stored under a tag, either a *)
(* plain string (the target) or an object.  An object may lack "target",   *)
(* and its "join_with" may be absent, a string or null.                    *)

MStr(target) ==
    [isdict |-> FALSE, hasTarget |-> TRUE, target |-> target,
     jw |-> "absent", delim |-> <<>>]
MDict(hasTarget, target, jw, delim) ==
    [isdict |-> TRUE, hasTarget |-> hasTarget, target |-> target,
     jw |-> jw, delim |-> delim]

\* outcome of a call: a returned string, or the exception it raised
Ret(s)      == [raised |-> "no",  s |-> s]
Raise(exc)  == [raised |-> exc,   s |-> <<>>]

\* values = [] / getattr(entry, tag) / entry[tag], lines 29-34; "TypeError"
\* when the item supports neither hasattr-found attributes nor `in`
LookupMulti(entry, tag) ==
    IF HasAttr(entry, tag) THEN ValueAt(entry, tag)
    ELSE IF ~IsDict(entry) THEN [t |-> "TypeError", s |-> <<>>, l |-> <<>>]
    ELSE IF HasKey(entry, tag) THEN ValueAt(entry, tag)
    ELSE PList(<<>>)

\* mutant of WrapList: a value that is no list is not wrapped but lost
WrapListUnwrapped(values) == IF values.t = "list" THEN values.l ELSE <<>>

\* if not isinstance(values, list): values = [values]
WrapList(values) == IF values.t = "list" THEN values.l ELSE <<values>>

\* [clean_text(str(v)) for v in values if v]
RECURSIVE CleanEach(_)
CleanEach(vs) ==
    IF vs = <<>> THEN <<>>
    ELSE IF Truthy(Head(vs))
         THEN <<clean_text(PStr(Str(Head(vs))))>> \o CleanEach(Tail(vs))
         ELSE CleanEach(Tail(vs))

\* the multi-valued branch, lines 28-39
ExtractMulti(entry, tag, map_info) ==
    LET values == LookupMulti(entry, tag) IN
    IF values.t = "TypeError" THEN Raise("TypeError")
    ELSE IF map_info.jw = "null" THEN Raise("AttributeError")
    ELSE Ret(Join(map_info.delim, CleanEach(WrapList(values))))

\* val = getattr(entry, tag, None) or entry.get(tag) if isinstance(entry, dict)
\*       else None                       (the conditional binds loosest)
SingleVal(entry, tag) ==
    IF IsDict(entry) THEN PyOr(GetAttr(entry, tag), DictGet(entry, tag))
    ELSE PNone

\* the single-valued branch, lines 41-42
ExtractSingle(entry, tag) ==
    LET val == SingleVal(entry, tag) IN
    IF Truthy(val) THEN Ret(clean_text(PStr(Str(val)))) ELSE Ret(<<>>)

IsMulti(map_info) == map_info.isdict /\ map_info.jw # "absent"

extract_field(entry, tag, map_info) ==
    IF IsMulti(map_info) THEN ExtractMulti(entry, tag, map_info)
    ELSE ExtractSingle(entry, tag)

---------------------------------------------------------------------------
(* Python dicts keep insertion order (so does the JSON of the store): a    *)
(* dict is a sequence of [k, v] pairs with distinct keys.                  *)

Keys(d)    == {d[i].k : i \in 1..Len(d)}
Has(d, k)  == k \in Keys(d)
Get(d, k)  == d[CHOOSE i \in 1..Len(d) : d[i].k = k].v
\* d[k] = v: an existing key keeps its position, a new one goes last
Put(d, k, v) ==
    IF Has(d, k)
    THEN [i \in 1..Len(d) |-> IF d[i].k = k THEN [k |-> k, v |-> v] ELSE d[i]]
    ELSE Append(d, [k |-> k, v |-> v])

---------------------------------------------------------------------------
(* The store file.  kind: "missing" (no file), "empty" (zero bytes, as     *)
(* left by open(path, 'w')), "corrupt" (bytes that are no JSON document)   *)
(* or "json" (a document; data is the dict feed_id -> rules).              *)

NoFile      == [kind |-> "missing", data |-> <<>>]
EmptyFile   == [kind |-> "empty",   data |-> <<>>]
CorruptFile == [kind |-> "corrupt", data |-> <<>>]
JsonFile(data) == [kind |-> "json", data |-> data]

\* outcome of load_mapping / parse_articles: what was raised, and the value
Loaded(exc, mapping) == [raised |-> exc, mapping |-> mapping]

\* mutant of load_mapping: an unknown feed id gets an empty default rule set
load_mapping_default(feed_id, f) ==
    CASE f.kind = "missing"              -> Loaded("FileNotFoundError", <<>>)
      [] f.kind \in {"empty", "corrupt"} -> Loaded("JSONDecodeError", <<>>)
      [] ~Has(f.data, feed_id)           -> Loaded("no", <<>>)
      [] OTHER                           -> Loaded("no", Get(f.data, feed_id))

load_mapping(feed_id, f) ==
    CASE f.kind = "missing"              -> Loaded("FileNotFoundError", <<>>)
      [] f.kind \in {"empty", "corrupt"} -> Loaded("JSONDecodeError", <<>>)
      [] ~Has(f.data, feed_id)           -> Loaded("ValueError", <<>>)
      [] OTHER                           -> Loaded("no", Get(f.data, feed_id))

Built(exc, article) == [raised |-> exc, article |-> article]

\* the inner loop of parse_articles, lines 57-60, from rule i on
RECURSIVE ApplyRules(_, _, _, _)
ApplyRules(entry, mapping, i, article) ==
    IF i > Len(mapping) THEN Built("no", article)
    ELSE LET tag      == mapping[i].k
             map_info == mapping[i].v
         IN  IF map_info.isdict /\ ~map_info.hasTarget
             THEN Built("KeyError", article)
             ELSE LET got == extract_field(entry, tag, map_info) IN
                  IF got.raised # "no" THEN Built(got.raised, article)
                  ELSE ApplyRules(entry, mapping, i + 1,
                                  Put(article, map_info.target, got.s))

\* mutant of BuildArticle: the rules are walked from the last to the first,
\* so that the first declared rule of a target writes last
BuildArticleReversed(entry, mapping) ==
    ApplyRules(entry, [i \in 1..Len(mapping) |-> mapping[Len(mapping) + 1 - i]],
               1, <<>>)

BuildArticle(entry, mapping) == ApplyRules(entry, mapping, 1, <<>>)

Parsed(exc, articles) == [raised |-> exc, articles |-> articles]

\* the outer loop of parse_articles, lines 55-61, from entry i on
RECURSIVE AppendArticles(_, _, _, _)
AppendArticles(entries, mapping, i, articles) ==
    IF i > Len(entries) THEN Parsed("no", articles)
    ELSE LET b == BuildArticle(entries[i], mapping) IN
         IF b.raised # "no" THEN Parsed(b.raised, <<>>)
         ELSE AppendArticles(entries, mapping, i + 1,
                             Append(articles, b.article))

\* mutant of parse_articles: records whose every field is empty are dropped
parse_articles_dropping(entries, feed_id, f) ==
    LET m == load_mapping(feed_id, f)
        r == IF m.raised # "no" THEN Parsed(m.raised, <<>>)
             ELSE IF entries = <<>> THEN Parsed("no", <<>>)
             ELSE AppendArticles(entries, m.mapping, 1, <<>>)
        NonEmpty(a) == \E j \in 1..Len(a) : a[j].v # <<>>
    IN  Parsed(r.raised, SelectSeq(r.articles, NonEmpty))

\* parse_articles; entries is what feedparser.parse(feed_url) gives
parse_articles(entries, feed_id, f) ==
    LET m == load_mapping(feed_id, f) IN
    IF m.raised # "no" THEN Parsed(m.raised, <<>>)
    ELSE IF entries = <<>> THEN Parsed("no", <<>>)
    ELSE AppendArticles(entries, m.mapping, 1, <<>>)

\* generic_rss_scanner.main, lines 110-119: the run's outcome
\*   "saved"        a report was written from the articles
\*   "no_articles"  parse_articles returned nothing; exit 1
\*   "error"        an exception was caught and printed; exit 1
ScanOutcome(entries, feed_id, f) ==
    LET r == parse_articles(entries, feed_id, f)
        m == load_mapping(feed_id, f)
    IN  [entries |-> entries, feed_id |-> feed_id, mapping |-> m.mapping,
         status |-> IF r.raised # "no" THEN "error"
                    ELSE IF r.articles = <<>> THEN "no_articles"
                    ELSE "saved",
         raised |-> r.raised, articles |-> r.articles]

ScanPending(entries, feed_id) ==
    [entries |-> entries, feed_id |-> feed_id, mapping |-> <<>>,
     status |-> "pending", raised |-> "no", articles |-> <<>>]

\* mutant of RunScan: a scan that finds no store file creates an empty one
RunScanCreating(entries, feed_id) ==
    LET o == ScanOutcome(entries, feed_id, file) IN
    /\ sc' = o
    /\ reports' = IF o.status = "saved" THEN reports + 1 ELSE reports
    /\ file' = IF file.kind = "missing" THEN JsonFile(<<>>) ELSE file

\* one run of the scanner on the store as it is now
RunScan(entries, feed_id) ==
    LET o == ScanOutcome(entries, feed_id, file) IN
    /\ sc' = o
    /\ reports' = IF o.status = "saved" THEN reports + 1 ELSE reports
    /\ UNCHANGED file

---------------------------------------------------------------------------
(* Input domains.                                                          *)

sA    == <<"A">>
sPadB == <<" ", " ", "B", " ", " ">>
sT    == <<"T">>
sAbs  == <<"<", "p", ">", "A", "b", "s", "\n", "<", "/", "p", ">">>
sWs   == <<" ">>

Semi  == <<";", " ">>
Comma == <<",", " ">>

RECURSIVE SeqsUpTo(_, _)
SeqsUpTo(S, n) ==
    IF n = 0 THEN {<<>>}
    ELSE LET shorter == SeqsUpTo(S, n - 1) IN
         shorter \cup {Append(q, x) : q \in {r \in shorter : Len(r) = n - 1},
                                      x \in S}

Strings    == {<<>>, sA, sPadB, sAbs, sWs}
ElemValues == {PStr(s) : s \in Strings} \cup {PNone}
Values     == {PStr(s) : s \in Strings} \cup {PNone, Absent}
                \cup {PList(l) : l \in SeqsUpTo(ElemValues, MaxList)}

Kinds == {"fpdict", "dict", "object", "none"}

Item(kind, f) == [kind |-> kind, f |-> f]

\* items for extract_field: any shape, any value under dc:creator
ExtractItems ==
    {Item(k, [tg \in {"dc:creator", "title"} |->
                 IF tg = "dc:creator" THEN v ELSE w]) :
        k \in {"fpdict", "dict", "object"}, v \in Values,
        w \in {Absent, PStr(sT)}}
    \cup {Item("none", [tg \in {"dc:creator", "title"} |-> Absent])}

ExtractRules ==
    {MStr("authors"),
     MDict(TRUE, "authors", "absent", <<>>),
     MDict(TRUE, "authors", "str", Semi),
     MDict(TRUE, "authors", "str", Comma),
     MDict(FALSE, "", "str", Comma),
     MDict(TRUE, "authors", "null", <<>>)}

Pending == [raised |-> "pending", s |-> <<>>]

ExIdle == [entry |-> Item("none", [tg \in {"dc:creator", "title"} |-> Absent]),
           tag |-> "title", map_info |-> MStr("title"), out |-> Pending]
ScIdle == ScanPending(<<>>, "")
SgIdle == [tags |-> <<>>, status |-> "idle", mapping |-> <<>>]

Procs == {"p1", "p2"}

CtIdle == [text |-> PNone, status |-> "idle", out |-> <<>>, again |-> <<>>]

HIdle == [feed_id |-> "", tags |-> <<>>, mapping |-> <<>>, i |-> 0,
          new_mapping |-> <<>>, data |-> <<>>]

---------------------------------------------------------------------------
(* SpecExtract: extract_field applied to every item and rule of the        *)
(* domains above.                                                          *)

InitExtract ==
    /\ ex \in {[entry |-> e, tag |-> tg, map_info |-> m, out |-> Pending] :
                  e \in ExtractItems, tg \in {"dc:creator", "title"},
                  m \in ExtractRules}
    /\ sc = ScIdle
    /\ reports = 0
    /\ file = NoFile
    /\ file0 = file
    /\ sg = SgIdle
    /\ hpc = [p \in Procs |-> "idle"]
    /\ hs = [p \in Procs |-> HIdle]
    /\ trace = <<>>
    /\ ct = CtIdle

ExtractCall ==
    /\ ex.out = Pending
    /\ ex' = [ex EXCEPT !.out = extract_field(ex.entry, ex.tag, ex.map_info)]
    /\ UNCHANGED <<sc, reports, file, file0, sg, hpc, hs, trace, ct>>

NextExtract == ExtractCall

SpecExtract == InitExtract /\ [][NextExtract]_vars

---------------------------------------------------------------------------
(* SpecClean: clean_text applied to None and to every text of at most      *)
(* MaxText characters over markup brackets, whitespace and a letter, and   *)
(* then to its own result.                                                 *)

TextChars == {"<", ">", " ", "\n", "a"}

Texts == {PNone} \cup {PStr(s) : s \in SeqsUpTo(TextChars, MaxText)}

InitClean ==
    /\ ct \in {[text |-> t, status |-> "pending", out |-> <<>>,
                again |-> <<>>] : t \in Texts}
    /\ ex = ExIdle
    /\ sc = ScIdle
    /\ reports = 0
    /\ file = NoFile
    /\ file0 = file
    /\ sg = SgIdle
    /\ hpc = [p \in Procs |-> "idle"]
    /\ hs = [p \in Procs |-> HIdle]
    /\ trace = <<>>

Clean ==
    /\ ct.status = "pending"
    /\ ct' = [ct EXCEPT !.status = "cleaned", !.out = clean_text(ct.text)]
    /\ UNCHANGED <<ex, sc, reports, file, file0, sg, hpc, hs, trace>>

CleanAgain ==
    /\ ct.status = "cleaned"
    /\ ct' = [ct EXCEPT !.status = "done",
                        !.again = clean_text(PStr(ct.out))]
    /\ UNCHANGED <<ex, sc, reports, file, file0, sg, hpc, hs, trace>>

NextClean == Clean \/ CleanAgain

SpecClean == InitClean /\ [][NextClean]_vars

---------------------------------------------------------------------------
(* SpecScan: one run of the scanner over every store, feed and feed id of  *)
(* the domains below.  Entries are what feedparser gives: FeedParserDicts. *)

ScanValues == {Absent, PStr(sPadB), PList(<<PStr(sA), PStr(sWs)>>)}

ScanItems ==
    {Item("fpdict", [tg \in {"author", "dc:creator"} |->
                        IF tg = "author" THEN v ELSE w]) :
        v \in ScanValues, w \in ScanValues}

Feeds == SeqsUpTo(ScanItems, MaxEntries)

ScanRules ==
    {MStr("authors"), MStr("title"),
     MDict(TRUE, "authors", "str", Semi),
     MDict(FALSE, "", "str", Comma)}

\* rule sets over the tags author and dc:creator, in either order
RuleSets ==
    {<<>>}
    \cup {<<[k |-> tg, v |-> m]>> : tg \in {"author", "dc:creator"},
                                    m \in ScanRules}
    \cup {<<[k |-> t.a, v |-> m1], [k |-> t.b, v |-> m2]>> :
             t \in {[a |-> "author", b |-> "dc:creator"],
                    [a |-> "dc:creator", b |-> "author"]},
             m1 \in ScanRules, m2 \in ScanRules}

ScanFiles ==
    {NoFile, CorruptFile}
    \cup {JsonFile(<<[k |-> "x", v |-> rs]>>) : rs \in RuleSets}

InitScan ==
    /\ file \in ScanFiles
    /\ file0 = file
    /\ sc \in {ScanPending(es, fid) : es \in Feeds, fid \in {"x", "y"}}
    /\ reports = 0
    /\ ex = ExIdle
    /\ sg = SgIdle
    /\ hpc = [p \in Procs |-> "idle"]
    /\ hs = [p \in Procs |-> HIdle]
    /\ trace = <<>>
    /\ ct = CtIdle

Scan ==
    /\ sc.status = "pending"
    /\ RunScan(sc.entries, sc.feed_id)
    /\ UNCHANGED <<ex, file0, sg, hpc, hs, trace, ct>>

NextScan == Scan

SpecScan == InitScan /\ [][NextScan]_vars

---------------------------------------------------------------------------
(* suggest_mapping.  A tag name is matched through its characters.         *)

Spell(tag) ==
    CASE tag = "title"       -> <<"t", "i", "t", "l", "e">>
      [] tag = "subtitle"    -> <<"s", "u", "b", "t", "i", "t", "l", "e">>
      [] tag = "dc:creator"  -> <<"d", "c", ":", "c", "r", "e", "a", "t", "o", "r">>
      [] tag = "creator"     -> <<"c", "r", "e", "a", "t", "o", "r">>
      [] tag = "description" -> <<"d", "e", "s", "c", "r", "i", "p", "t", "i", "o", "n">>
      [] tag = "pubDate"     -> <<"p", "u", "b", "D", "a", "t", "e">>
      [] tag = "link"        -> <<"l", "i", "n", "k">>
      [] tag = "guid"        -> <<"g", "u", "i", "d">>
      [] tag = "doi"         -> <<"d", "o", "i">>
      [] tag = "channel"     -> <<"c", "h", "a", "n", "n", "e", "l">>
      [] tag = "item"        -> <<"i", "t", "e", "m">>
      [] tag = "entry"       -> <<"e", "n", "t", "r", "y">>
      [] tag = "authors"     -> <<"a", "u", "t", "h", "o", "r", "s">>
      [] tag = "byline"      -> <<"b", "y", "l", "i", "n", "e">>
      [] tag \in {"x", "y", "z"} -> <<tag>>

CANONICAL_FIELDS ==
    <<"title", "authors", "abstract", "published_date", "doi_url", "link">>

\* the alternatives of each field's pattern, lines 20-27
FIELD_HINTS(canon) ==
    CASE canon = "title"    -> {<<"t", "i", "t", "l", "e">>}
      [] canon = "authors"  -> {<<"c", "r", "e", "a", "t", "o", "r">>,
                                <<"a", "u", "t", "h", "o", "r">>}
      [] canon = "abstract" ->
            {<<"d", "e", "s", "c", "r", "i", "p", "t", "i", "o", "n">>,
             <<"s", "u", "m", "m", "a", "r", "y">>,
             <<"a", "b", "s", "t", "r", "a", "c", "t">>,
             <<"c", "o", "n", "t", "e", "n", "t", ":",
               "e", "n", "c", "o", "d", "e", "d">>}
      [] canon = "published_date" ->
            {<<"d", "a", "t", "e">>,
             <<"p", "u", "b", "l", "i", "s", "h", "e", "d">>,
             <<"p", "u", "b", "D", "a", "t", "e">>,
             <<"u", "p", "d", "a", "t", "e", "d">>}
      [] canon = "doi_url"  -> {<<"d", "o", "i">>, <<"l", "i", "n", "k">>}
      [] canon = "link"     -> {<<"l", "i", "n", "k">>}

\* re.I, str.lower(): D and Y are the only capitals in use
LowerChar(c) == IF c = "D" THEN "d" ELSE IF c = "Y" THEN "y" ELSE c
Lower(w) == [i \in 1..Len(w) |-> LowerChar(w[i])]

\* regex.fullmatch(tag): the whole name is one of the alternatives
FullMatch(canon, tag) ==
    \E w \in FIELD_HINTS(canon) : Lower(Spell(tag)) = Lower(w)

\* regex.search(tag): some alternative occurs in the name
Search(canon, tag) ==
    \E w \in FIELD_HINTS(canon) :
        \E o \in 0..(Len(Spell(tag)) - Len(w)) :
            SubSeq(Lower(Spell(tag)), o + 1, o + Len(w)) = Lower(w)

\* the condition of line 51
Matches(canon, tag) == FullMatch(canon, tag) \/ Search(canon, tag)

\* index of the tag at which the inner loop of lines 50-54 breaks, 0 if it
\* runs to the end
FirstMatch(canon, tags) ==
    LET hits == {i \in 1..Len(tags) : Matches(canon, tags[i])} IN
    IF hits = {} THEN 0 ELSE Min(hits)

\* lines 49-54 from field c on: mapping and used after the loop
RECURSIVE ClaimFields(_, _, _, _)
ClaimFields(c, tags, mapping, used) ==
    IF c > Len(CANONICAL_FIELDS) THEN [mapping |-> mapping, used |-> used]
    ELSE LET i == FirstMatch(CANONICAL_FIELDS[c], tags) IN
         IF i = 0 THEN ClaimFields(c + 1, tags, mapping, used)
         ELSE ClaimFields(c + 1, tags,
                          Put(mapping, tags[i], CANONICAL_FIELDS[c]),
                          used \cup {tags[i]})

\* mutant of AddUnmapped: the test of line 57 inverted
RECURSIVE AddUnmappedInverted(_, _, _, _)
AddUnmappedInverted(i, tags, mapping, used) ==
    IF i > Len(tags) THEN mapping
    ELSE AddUnmappedInverted(i + 1, tags,
                             IF tags[i] \in used
                             THEN Put(mapping, tags[i], tags[i]) ELSE mapping,
                             used)

\* lines 56-58 from tag i on
RECURSIVE AddUnmapped(_, _, _, _)
AddUnmapped(i, tags, mapping, used) ==
    IF i > Len(tags) THEN mapping
    ELSE AddUnmapped(i + 1, tags,
                     IF tags[i] \notin used
                     THEN Put(mapping, tags[i], tags[i]) ELSE mapping,
                     used)

suggest_mapping(tags) ==
    LET claimed == ClaimFields(1, tags, <<>>, {}) IN
    AddUnmapped(1, tags, claimed.mapping, claimed.used)

---------------------------------------------------------------------------
(* SpecSuggest: suggest_mapping applied to every list of distinct tags of  *)
(* at most MaxTags names.                                                  *)

TagNames ==
    {"title", "subtitle", "dc:creator", "description", "pubDate", "link",
     "guid", "doi"}

Distinct(q) == \A i, j \in 1..Len(q) : i # j => q[i] # q[j]

TagLists == {q \in SeqsUpTo(TagNames, MaxTags) : Distinct(q)}

InitSuggest ==
    /\ sg \in {[tags |-> q, status |-> "pending", mapping |-> <<>>] :
                  q \in TagLists}
    /\ ex = ExIdle
    /\ sc = ScIdle
    /\ reports = 0
    /\ file = NoFile
    /\ file0 = file
    /\ hpc = [p \in Procs |-> "idle"]
    /\ hs = [p \in Procs |-> HIdle]
    /\ trace = <<>>
    /\ ct = CtIdle

Suggest ==
    /\ sg.status = "pending"
    /\ sg' = [sg EXCEPT !.status = "done", !.mapping = suggest_mapping(sg.tags)]
    /\ UNCHANGED <<ex, sc, reports, file, file0, hpc, hs, trace, ct>>

NextSuggest == Suggest

SpecSuggest == InitSuggest /\ [][NextSuggest]_vars

---------------------------------------------------------------------------
(* mapping_strategy_helper: analysis of a feed source.                     *)
(* A source is what get_rss_content is pointed at: kind "unreadable" (the  *)
(* fetch or file read fails), "malformed" (ET.fromstring raises) or "xml", *)
(* with elems the elements of the document in root.iter() order, each with *)
(* its tag and its direct children [ns, name].                             *)

Elem(tag, children) == [tag |-> tag, children |-> children]
Child(ns, name)     == [ns |-> ns, name |-> name]

\* tag.endswith(suffix)
EndsWith(w, suffix) ==
    /\ Len(w) >= Len(suffix)
    /\ SubSeq(w, Len(w) - Len(suffix) + 1, Len(w)) = suffix

IsItemOrEntry(e) ==
    \/ EndsWith(Spell(e.tag), <<"i", "t", "e", "m">>)
    \/ EndsWith(Spell(e.tag), <<"e", "n", "t", "r", "y">>)

find_items_or_entries(elems) == SelectSeq(elems, IsItemOrEntry)

\* child.tag.split('}')[-1]: the name without its {namespace}
StripNamespace(child) == child.name

\* lines 104-110: the children's names, first occurrences only, from child i
RECURSIVE DiscoverTags(_, _, _)
DiscoverTags(children, i, tags) ==
    IF i > Len(children) THEN tags
    ELSE LET tag == StripNamespace(children[i]) IN
         DiscoverTags(children, i + 1,
                      IF \E j \in 1..Len(tags) : tags[j] = tag
                      THEN tags ELSE Append(tags, tag))

\* main and analyze_and_suggest up to the first prompt: how the run goes on
\* ("interactive": interactive_mapping is entered) or how it ends
Analysis(src, update_json) ==
    LET items == find_items_or_entries(src.elems)
        tags  == DiscoverTags(items[1].children, 1, <<>>)
    IN  CASE src.kind = "unreadable" ->
                [end |-> "suggest_unreadable", tags |-> <<>>, mapping |-> <<>>]
          [] src.kind = "malformed" ->
                [end |-> "suggest_malformed", tags |-> <<>>, mapping |-> <<>>]
          [] items = <<>> ->
                [end |-> "suggest_noitems", tags |-> <<>>, mapping |-> <<>>]
          [] OTHER ->
                [end |-> IF update_json THEN "interactive"
                         ELSE "suggest_noupdate",
                 tags |-> tags, mapping |-> suggest_mapping(tags)]

\* mutant of RuleFromAnswer: a multi-valued rule is stored without its target
RuleFromAnswerNoTarget(suggested, answer) ==
    LET field == IF answer.user_input # "" THEN answer.user_input
                 ELSE suggested
        multi == Lower(Strip(answer.multi))
        delim == IF Strip(answer.delim) = <<>> THEN <<",", " ">>
                 ELSE Strip(answer.delim)
    IN  IF multi = <<"y">> THEN MDict(FALSE, field, "str", delim)
        ELSE MStr(field)

\* one pass of the loop of interactive_mapping, lines 66-77, for tag i;
\* answer holds the lines the operator types: user_input (already
\* stripped), multi and delim
RuleFromAnswer(suggested, answer) ==
    LET field == IF answer.user_input # "" THEN answer.user_input
                 ELSE suggested
        multi == Lower(Strip(answer.multi))
        delim == IF Strip(answer.delim) = <<>> THEN <<",", " ">>
                 ELSE Strip(answer.delim)
    IN  IF multi = <<"y">> THEN MDict(TRUE, field, "str", delim)
        ELSE MStr(field)

\* persistence steps already begun: those logged and those a session or a
\* pending read will make
StartedCalls ==
    Cardinality({i \in 1..Len(trace) : trace[i].op = "read"})
    + Cardinality({p \in Procs : hpc[p] \in {"interactive", "read"}})

Event(p, op, data) ==
    [p |-> p, op |-> op, feed_id |-> hs[p].feed_id,
     rules |-> hs[p].new_mapping, data |-> data]

\* one run of the helper from its start to its end or to its first prompt
Analyze(p, src, feed_id_hint, update_json) ==
    LET a == Analysis(src, update_json) IN
    /\ hpc[p] = "idle"
    /\ a.end = "interactive" => StartedCalls < MaxCalls
    /\ hs' = [hs EXCEPT ![p] =
                 IF a.end # "interactive" THEN HIdle
                 ELSE [feed_id |-> feed_id_hint, tags |-> a.tags,
                       mapping |-> a.mapping, i |-> 1,
                       new_mapping |-> <<>>, data |-> <<>>]]
    /\ hpc' = [hpc EXCEPT ![p] =
                  IF a.end # "interactive" THEN "idle"
                  ELSE IF a.tags = <<>> THEN "read" ELSE "interactive"]
    /\ UNCHANGED <<ex, sc, reports, file, file0, sg, trace, ct>>

\* the operator answers the prompts for the next tag
Answer(p, answer) ==
    LET h   == hs[p]
        tag == h.tags[h.i]
    IN  /\ hpc[p] = "interactive"
        /\ hs' = [hs EXCEPT ![p].new_mapping =
                      Put(h.new_mapping, tag,
                          RuleFromAnswer(Get(h.mapping, tag), answer)),
                            ![p].i = h.i + 1]
        /\ hpc' = [hpc EXCEPT ![p] =
                      IF h.i = Len(h.tags) THEN "read" ELSE "interactive"]
        /\ UNCHANGED <<ex, sc, reports, file, file0, sg, trace, ct>>

\* input() meets the end of the input: EOFError, caught by main
AnswerEOF(p) ==
    /\ hpc[p] = "interactive"
    /\ hpc' = [hpc EXCEPT ![p] = "idle"]
    /\ hs' = [hs EXCEPT ![p] = HIdle]
    /\ UNCHANGED <<ex, sc, reports, file, file0, sg, trace, ct>>

\* mutant of ReadData: the store is not read, the data starts empty
ReadDataFresh(f) == <<>>

\* update_json_mapping_file, lines 82-91: read and parse the store (any
\* failure to parse gives {}), then set the feed's entry in memory
ReadData(f) == IF f.kind = "json" THEN f.data ELSE <<>>

PersistRead(p) ==
    /\ hpc[p] = "read"
    /\ hs' = [hs EXCEPT ![p].data =
                 Put(ReadData(file), hs[p].feed_id, hs[p].new_mapping)]
    /\ hpc' = [hpc EXCEPT ![p] = "truncate"]
    /\ trace' = Append(trace, Event(p, "read", ReadData(file)))
    /\ UNCHANGED <<ex, sc, reports, file, file0, sg, ct>>

\* line 92: open(path, 'w') creates or truncates the file
PersistTruncate(p) ==
    /\ hpc[p] = "truncate"
    /\ file' = EmptyFile
    /\ hpc' = [hpc EXCEPT ![p] = "write"]
    /\ trace' = Append(trace, Event(p, "trunc", <<>>))
    /\ UNCHANGED <<ex, sc, reports, file0, sg, hs, ct>>

\* mutant of Written: entries the file holds for other feed ids are kept
RECURSIVE PutAll(_, _)
PutAll(d, more) ==
    IF more = <<>> THEN d
    ELSE PutAll(Put(d, Head(more).k, Head(more).v), Tail(more))

WrittenMerging(f, data) ==
    IF f.kind = "json" THEN {JsonFile(PutAll(f.data, data))}
    ELSE {JsonFile(data)}

\* json.dump(data, f, indent=4, ensure_ascii=False), line 93: the number of
\* characters of the document it writes
RECURSIVE Sum(_)
Sum(sizes) == IF sizes = <<>> THEN 0 ELSE Head(sizes) + Sum(Tail(sizes))

StrSize(chars) == Len(chars) + 2

\* an object whose members, indentation included, have the given sizes and
\* whose closing brace is indented by indent
ObjectSize(sizes, indent) ==
    IF sizes = <<>> THEN 2
    ELSE 2 + Sum(sizes) + 2 * (Len(sizes) - 1) + 1 + indent + 1

RuleSize(r) ==
    IF ~r.isdict THEN StrSize(Spell(r.target))
    ELSE ObjectSize(
            (IF r.hasTarget THEN <<12 + 10 + StrSize(Spell(r.target))>>
             ELSE <<>>)
            \o (CASE r.jw = "str"  -> <<12 + 13 + StrSize(r.delim)>>
                  [] r.jw = "null" -> <<12 + 13 + 4>>
                  [] OTHER         -> <<>>),
            8)

RulesSize(rules) ==
    ObjectSize([i \in 1..Len(rules) |->
                   8 + StrSize(Spell(rules[i].k)) + 2 + RuleSize(rules[i].v)],
               4)

DocSize(data) ==
    ObjectSize([i \in 1..Len(data) |->
                   4 + StrSize(Spell(data[i].k)) + 2 + RulesSize(data[i].v)],
               0)

\* what the file holds after data is written from offset 0 of the handle
\* opened in line 92: the document, or, when another writer has put a
\* longer document there since the truncation, the document followed by
\* the rest of the other one, which no parser accepts
Written(f, data) ==
    CASE f.kind = "empty" -> {JsonFile(data)}
      [] f.kind = "json"  -> IF DocSize(f.data) > DocSize(data)
                             THEN {CorruptFile}
                             ELSE {JsonFile(data)}
      [] OTHER            -> {JsonFile(data), CorruptFile}

\* line 93 and the close of the file: json.dump reaches the file
PersistWrite(p) ==
    /\ hpc[p] = "write"
    /\ file' \in Written(file, hs[p].data)
    /\ hpc' = [hpc EXCEPT ![p] = "idle"]
    /\ hs' = [hs EXCEPT ![p] = HIdle]
    /\ trace' = Append(trace, Event(p, "write", hs[p].data))
    /\ UNCHANGED <<ex, sc, reports, file0, sg, ct>>

---------------------------------------------------------------------------
(* Spec: two helper processes and the scanner working on one store file.   *)

SrcUnreadable == [kind |-> "unreadable", elems |-> <<>>]
SrcMalformed  == [kind |-> "malformed",  elems |-> <<>>]
SrcNoItems    ==
    [kind |-> "xml",
     elems |-> <<Elem("channel", <<Child("", "title")>>)>>]
SrcRss        ==
    [kind |-> "xml",
     elems |-> <<Elem("channel", <<Child("", "title"), Child("", "item")>>),
                 Elem("item", <<Child("dc", "creator"),
                                Child("dc", "creator")>>),
                 Elem("item", <<Child("", "title")>>)>>]

Sources == {SrcUnreadable, SrcMalformed, SrcNoItems, SrcRss}

Typed(user_input, multi, delim) ==
    [user_input |-> user_input, multi |-> multi, delim |-> delim]

\* Enter, Enter / byline, Y, "; " / Enter, y, " "
Answers ==
    {Typed("", <<>>, <<>>),
     Typed("byline", <<"Y">>, Semi),
     Typed("", <<"y">>, sWs)}

HelperFeedIds == {"x", "y"}

OldRules == <<[k |-> "dc:creator", v |-> MStr("authors")]>>
ZRules   == <<[k |-> "dc:creator", v |-> MDict(TRUE, "authors", "str", Comma)]>>

InitFiles ==
    {NoFile, CorruptFile,
     JsonFile(<<[k |-> "z", v |-> ZRules]>>),
     JsonFile(<<[k |-> "x", v |-> OldRules], [k |-> "z", v |-> ZRules]>>)}

SpecFeeds ==
    {<<>>,
     <<Item("fpdict", [tg \in {"author", "dc:creator"} |->
                          IF tg = "author" THEN Absent
                          ELSE PList(<<PStr(sA), PStr(sPadB)>>)])>>}

Init ==
    /\ file \in InitFiles
    /\ file0 = file
    /\ ex = ExIdle
    /\ sc = ScIdle
    /\ reports = 0
    /\ sg = SgIdle
    /\ hpc = [p \in Procs |-> "idle"]
    /\ hs = [p \in Procs |-> HIdle]
    /\ trace = <<>>
    /\ ct = CtIdle

Next ==
    \/ \E p \in Procs, src \in Sources, fid \in HelperFeedIds,
          u \in BOOLEAN : Analyze(p, src, fid, u)
    \/ \E p \in Procs, a \in Answers : Answer(p, a)
    \/ \E p \in Procs : AnswerEOF(p)
    \/ \E p \in Procs : PersistRead(p)
    \/ \E p \in Procs : PersistTruncate(p)
    \/ \E p \in Procs : PersistWrite(p)

Spec == Init /\ [][Next]_vars

---------------------------------------------------------------------------
(* SpecStore: one helper process and the scanner working on one store      *)
(* file, the scanner running once at any moment of the helper's work.      *)

ScanRun(entries, feed_id) ==
    /\ sc = ScIdle
    /\ RunScan(entries, feed_id)
    /\ UNCHANGED <<ex, file0, sg, hpc, hs, trace, ct>>

NextStore ==
    \/ \E src \in Sources, fid \in HelperFeedIds, u \in BOOLEAN :
          Analyze("p1", src, fid, u)
    \/ \E a \in Answers : Answer("p1", a)
    \/ AnswerEOF("p1")
    \/ PersistRead("p1")
    \/ PersistTruncate("p1")
    \/ PersistWrite("p1")
    \/ \E es \in SpecFeeds, fid \in {"x", "q"} : ScanRun(es, fid)

SpecStore == Init /\ [][NextStore]_vars

---------------------------------------------------------------------------
(* Claims about parse_articles and main of the scanner, under SpecScan.    *)

ScanDone == sc.status # "pending"

\* the store holds rules for the scan's feed id
Resolved == file.kind = "json" /\ Has(file.data, sc.feed_id)

\* every rule is a plain target or an object with a target and, if it has
\* a join_with, a string one
WellFormed(mapping) ==
    \A i \in 1..Len(mapping) :
        mapping[i].v.isdict =>
            mapping[i].v.hasTarget /\ mapping[i].v.jw # "null"

\* C1: for a parsed feed and the rule set of a known feed_id, parse_articles
\* returns exactly one record per entry, in the entries' order: record i is
\* the one built from entry i, and no entry is dropped whatever its fields
\* extract to.
C1_OneRecordPerEntry ==
    (ScanDone /\ Resolved /\ WellFormed(sc.mapping)) =>
        /\ sc.raised = "no"
        /\ Len(sc.articles) = Len(sc.entries)
        /\ \A i \in 1..Len(sc.entries) :
              sc.articles[i] = BuildArticle(sc.entries[i], sc.mapping).article

AllEmpty(article) == \A j \in 1..Len(article) : article[j].v = <<>>

\* a two-entry feed whose second entry extracts to nothing but empty
\* strings is kept, after a first entry that extracts to something
C1_Witness ==
    /\ sc.status = "saved"
    /\ Len(sc.mapping) = 2
    /\ Len(sc.entries) = 2 /\ Len(sc.articles) = 2
    /\ ~AllEmpty(sc.articles[1])
    /\ AllEmpty(sc.articles[2])

\* index of the last rule, in declaration order, whose target is tf
LastRuleFor(mapping, tf) ==
    CHOOSE j \in 1..Len(mapping) :
        /\ mapping[j].v.target = tf
        /\ \A h \in (j + 1)..Len(mapping) : mapping[h].v.target # tf

Targets(mapping) == {mapping[j].v.target : j \in 1..Len(mapping)}

\* C2: rules are applied in the store's declaration order; a record's value
\* for a target field is the extraction result of the last rule that has
\* this target, overwriting every earlier write.
C2_LastWriteWins ==
    (ScanDone /\ Resolved /\ WellFormed(sc.mapping)) =>
        \A i \in 1..Len(sc.articles) :
            /\ Keys(sc.articles[i]) = Targets(sc.mapping)
            /\ \A tf \in Targets(sc.mapping) :
                  LET j == LastRuleFor(sc.mapping, tf) IN
                  Get(sc.articles[i], tf) =
                      extract_field(sc.entries[i], sc.mapping[j].k,
                                    sc.mapping[j].v).s

\* both rules target authors, the first rule's tag is absent from the entry
\* and the second's is present: the record holds the second rule's value
C2_Witness ==
    /\ sc.status = "saved"
    /\ Len(sc.mapping) = 2
    /\ sc.mapping[1].v.target = "authors"
    /\ sc.mapping[2].v.target = "authors"
    /\ sc.entries[1].f[sc.mapping[1].k] = Absent
    /\ sc.entries[1].f[sc.mapping[2].k] = PStr(sPadB)
    /\ sc.articles[1] = <<[k |-> "authors", v |-> <<"B">>]>>

\* C5: a field that cannot be extracted degrades to the empty string and
\* never raises: a scan with a resolved rule set and a non-empty feed still
\* yields one record per entry.
C5_NeverRaises ==
    (ScanDone /\ Resolved /\ sc.entries # <<>>) =>
        /\ sc.raised = "no"
        /\ Len(sc.articles) = Len(sc.entries)

\* C6: a feed_id without an entry in a readable store fails with an error
\* and aborts the scan: no records, no report file.
C6_UnknownFeedAborts ==
    (ScanDone /\ file.kind = "json" /\ ~Has(file.data, sc.feed_id)) =>
        /\ sc.raised = "ValueError"
        /\ sc.status = "error"
        /\ sc.articles = <<>>
        /\ reports = 0

\* an unknown feed id scanned against a store with rules for another id and
\* a feed that has entries
C6_Witness ==
    /\ sc.status = "error" /\ sc.raised = "ValueError"
    /\ sc.feed_id = "y" /\ Has(file.data, "x") /\ Get(file.data, "x") # <<>>
    /\ sc.entries # <<>>

---------------------------------------------------------------------------
(* Claims about extract_field, under SpecExtract.                          *)

ExDone == ex.out # Pending

\* the value the item exposes under the tag, by attribute or by key
Exposed(entry, tag) ==
    IF entry.kind = "none" THEN Absent ELSE ValueAt(entry, tag)

\* C3: for a non-multi-valued rule and any item, exposing the tag by
\* attribute or by key, extract_field returns "" when the tag is absent or
\* empty and normalize(str(value)) otherwise.
C3_SingleValued ==
    (ExDone /\ ~IsMulti(ex.map_info)) =>
        LET v == Exposed(ex.entry, ex.tag) IN
        ex.out = IF Truthy(v) THEN Ret(clean_text(PStr(Str(v))))
                 ELSE Ret(<<>>)

\* the items the multi-valued lookup can answer for the tag: mappings, and
\* attribute-bearing objects that have the attribute
CanLookUp(entry, tag) == IsDict(entry) \/ HasAttr(entry, tag)

\* the elements of a looked-up value: a list's own, a single value alone,
\* none for an absent tag
Elements(v) ==
    CASE v.t = "list"   -> v.l
      [] v.t = "absent" -> <<>>
      [] OTHER          -> <<v>>

Normalized(vs) ==
    LET kept == SelectSeq(vs, Truthy) IN
    [i \in 1..Len(kept) |-> clean_text(PStr(Str(kept[i])))]

---------------------------------------------------------------------------
(* Claims about clean_text, under SpecClean.                               *)

\* a '<', at least one character other than '>', and a '>'
HasMarkup(s) ==
    \E i \in 1..Len(s), j \in 1..Len(s) :
        /\ j > i + 1
        /\ s[i] = "<" /\ s[j] = ">"
        /\ \A n \in (i + 1)..(j - 1) : s[n] # ">"

HasWsRun(s) ==
    \E i \in 1..(Len(s) - 1) : s[i] \in Whitespace /\ s[i + 1] \in Whitespace

HasOuterWs(s) ==
    s # <<>> /\ (s[1] \in Whitespace \/ s[Len(s)] \in Whitespace)

NormalForm(s) == ~HasMarkup(s) /\ ~HasWsRun(s) /\ ~HasOuterWs(s)

\* C14: for every text and for None the result of clean_text holds no
\* markup, no run of whitespace and no leading or trailing whitespace, None
\* gives the empty string, and cleaning the result again changes nothing.
C14_NormalFormIdempotent ==
    /\ ct.status \in {"cleaned", "done"} =>
          /\ NormalForm(ct.out)
          /\ ct.text = PNone => ct.out = <<>>
    /\ ct.status = "done" => ct.again = ct.out

\* a text with markup and outer whitespace cleaned to a non-empty result,
\* and the result cleaned again
C14_Witness ==
    /\ ct.status = "done"
    /\ HasMarkup(ct.text.s) /\ HasOuterWs(ct.text.s)
    /\ ct.out # <<>>
    /\ ct.again = ct.out

---------------------------------------------------------------------------
(* Claims about suggest_mapping, under SpecSuggest.                        *)

FieldIndex == 1..Len(CANONICAL_FIELDS)

\* field c's scan of the tags stops at this tag and claims it
Claims(c, tags, tag) ==
    /\ FirstMatch(CANONICAL_FIELDS[c], tags) # 0
    /\ tags[FirstMatch(CANONICAL_FIELDS[c], tags)] = tag

\* C10: the fields are processed in the order title, authors, abstract,
\* published_date, doi_url, link, and a tag claimed by an earlier field is
\* never claimed again by a later one: it stays mapped to the field
\* processed first.
C10_FirstFieldKeepsTag ==
    sg.status = "done" =>
        \A c \in FieldIndex, d \in FieldIndex, i \in 1..Len(sg.tags) :
            (c < d /\ Claims(c, sg.tags, sg.tags[i])) =>
                Get(sg.mapping, sg.tags[i]) # CANONICAL_FIELDS[d]

\* C11: for each canonical field, a discovered tag whose whole name matches
\* the field's pattern is preferred to a tag that only contains the pattern:
\* when both are discovered, an exactly matching tag is the one mapped to
\* the field, and the tag that only contains the pattern is not.
C11_ExactMatchPreferred ==
    sg.status = "done" =>
        \A c \in FieldIndex, i \in 1..Len(sg.tags), j \in 1..Len(sg.tags) :
            (/\ FullMatch(CANONICAL_FIELDS[c], sg.tags[j])
             /\ Search(CANONICAL_FIELDS[c], sg.tags[i])
             /\ ~FullMatch(CANONICAL_FIELDS[c], sg.tags[i])) =>
                /\ Get(sg.mapping, sg.tags[i]) # CANONICAL_FIELDS[c]
                /\ \E k \in 1..Len(sg.tags) :
                      /\ FullMatch(CANONICAL_FIELDS[c], sg.tags[k])
                      /\ Get(sg.mapping, sg.tags[k]) = CANONICAL_FIELDS[c]

RssTags == <<"title", "dc:creator", "description", "pubDate", "link">>

Pairs(mapping) == {<<mapping[i].k, mapping[i].v>> : i \in 1..Len(mapping)}

\* C12: for the tags title, dc:creator, description, pubDate, link the
\* suggestion is title->title, dc:creator->authors, description->abstract,
\* pubDate->published_date and link->link or link->doi_url; there is one
\* entry per discovered tag, and every tag that no field claims maps to
\* itself.
C12_SuggestedMapping ==
    sg.status = "done" =>
        /\ sg.tags = RssTags =>
              \E l \in {"link", "doi_url"} :
                  Pairs(sg.mapping) =
                      {<<"title", "title">>, <<"dc:creator", "authors">>,
                       <<"description", "abstract">>,
                       <<"pubDate", "published_date">>, <<"link", l>>}
        /\ Len(sg.mapping) = Len(sg.tags)
        /\ Keys(sg.mapping) = {sg.tags[i] : i \in 1..Len(sg.tags)}
        /\ \A i \in 1..Len(sg.tags) :
              (\A c \in FieldIndex : ~Claims(c, sg.tags, sg.tags[i])) =>
                  Get(sg.mapping, sg.tags[i]) = sg.tags[i]

\* the suggestion for the five tags, link ending as link
C12_Witness ==
    /\ sg.status = "done"
    /\ sg.tags = RssTags
    /\ Get(sg.mapping, "dc:creator") = "authors"
    /\ Get(sg.mapping, "link") = "link"

---------------------------------------------------------------------------
(* Claims about update_json_mapping_file, under Spec.                      *)

FeedIds == {"x", "y", "z"}

\* the store's entry for a feed id: <<rules>>, or <<>> when there is none
Entry(f, feed_id) ==
    IF f.kind = "json" /\ Has(f.data, feed_id)
    THEN <<Get(f.data, feed_id)>> ELSE <<>>

\* the logged steps are complete calls, one after the other
Sequential(tr) ==
    /\ Len(tr) % 3 = 0
    /\ \A n \in 0..((Len(tr) \div 3) - 1) :
          /\ tr[3 * n + 1].op = "read"
          /\ tr[3 * n + 2].op = "trunc" /\ tr[3 * n + 2].p = tr[3 * n + 1].p
          /\ tr[3 * n + 3].op = "write" /\ tr[3 * n + 3].p = tr[3 * n + 1].p

WritesFor(tr, feed_id) ==
    {i \in 1..Len(tr) : tr[i].op = "write" /\ tr[i].feed_id = feed_id}

Max(S) == CHOOSE x \in S : \A y \in S : x >= y

\* C7: after any sequence of non-overlapping calls of
\* update_json_mapping_file, the entry of each feed_id that was persisted is
\* the rule set of the last call for it, and the entry of every other
\* feed_id is what it was before.
C7_LastCallWinsOthersKept ==
    Sequential(trace) =>
        \A f \in FeedIds :
            IF WritesFor(trace, f) # {}
            THEN Entry(file, f) = <<trace[Max(WritesFor(trace, f))].rules>>
            ELSE Entry(file, f) = Entry(file0, f)

\* two calls for x with different rule sets, one after the other, on a store
\* that holds an entry for z
C7_Witness ==
    /\ Sequential(trace) /\ Len(trace) = 6
    /\ trace[3].feed_id = "x" /\ trace[6].feed_id = "x"
    /\ trace[3].rules # trace[6].rules
    /\ Entry(file0, "z") # <<>>
    /\ Entry(file, "x") = <<trace[6].rules>>
    /\ Entry(file, "z") = Entry(file0, "z")

\* the last six logged steps are two complete calls by different processes
\* for different feed ids, both of which read the store before either
\* opened it for writing
Race ==
    /\ Len(trace) >= 6
    /\ LET l == SubSeq(trace, Len(trace) - 5, Len(trace)) IN
       /\ l[1].op = "read" /\ l[2].op = "read"
       /\ l[1].p # l[2].p
       /\ l[1].feed_id # l[2].feed_id
       /\ {<<l[i].p, l[i].op>> : i \in 3..6}
             = {l[1].p, l[2].p} \X {"trunc", "write"}

Last6 == SubSeq(trace, Len(trace) - 5, Len(trace))
\* the later writer, its read, and the earlier writer's write
LaterP       == Last6[6].p
LaterRead    == IF Last6[1].p = LaterP THEN Last6[1] ELSE Last6[2]
EarlierWrite ==
    Last6[CHOOSE i \in 3..5 : Last6[i].op = "write" /\ Last6[i].p # LaterP]
LaterTruncAt ==
    CHOOSE i \in 3..5 : Last6[i].op = "trunc" /\ Last6[i].p = LaterP
EarlierWriteAt ==
    CHOOSE i \in 3..5 : Last6[i].op = "write" /\ Last6[i].p # LaterP

\* what the later writer writes: the store as it read it, with its entry
LaterContent == Put(LaterRead.data, LaterRead.feed_id, LaterRead.rules)

\* C8 as stated: when both processes read before either writes, the later
\* writer's content is the final store, and the earlier writer's entry is
\* not in it.
C8_LaterWriterWins ==
    Race =>
        /\ file = JsonFile(LaterContent)
        /\ Entry(file, EarlierWrite.feed_id)
              = Entry(JsonFile(LaterRead.data), EarlierWrite.feed_id)

\* C8 as amended: the final store is the later writer's content, unless the
\* later writer had opened the file before the earlier writer wrote and its
\* document is the shorter of the two: then the file holds the later
\* document followed by the rest of the earlier one, and is no document at
\* all.  Either way the earlier writer's update is lost.
Overlaid ==
    /\ LaterTruncAt < EarlierWriteAt
    /\ DocSize(EarlierWrite.data) > DocSize(LaterContent)

C8_LostUpdate ==
    Race =>
        /\ file = IF Overlaid THEN CorruptFile ELSE JsonFile(LaterContent)
        /\ Entry(file, EarlierWrite.feed_id)
              \in {Entry(JsonFile(LaterRead.data), EarlierWrite.feed_id), <<>>}

\* the race over: the store is the later writer's document and the rules
\* the earlier writer persisted are not in it
C8_Witness ==
    /\ Race
    /\ file = JsonFile(LaterContent)
    /\ Entry(file, EarlierWrite.feed_id) # <<EarlierWrite.rules>>
    /\ \A p \in Procs : hpc[p] = "idle"

\* the logged steps are one complete call by each of the two processes, for
\* different feed ids, in any interleaving
BothCallsDone ==
    /\ Len(trace) = 6
    /\ {<<trace[i].p, trace[i].op>> : i \in 1..6}
          = Procs \X {"read", "trunc", "write"}
    /\ \E i \in 1..6, j \in 1..6 : trace[i].feed_id # trace[j].feed_id

\* C15: under every interleaving of two concurrent calls for different feed
\* ids, an entry for a third feed id z that was in the store before both
\* calls is still there, unchanged, after both have completed.
C15_ThirdEntryKept ==
    (BothCallsDone /\ Entry(file0, "z") # <<>>) =>
        Entry(file, "z") = Entry(file0, "z")

---------------------------------------------------------------------------
(* Claims about interactive_mapping, under Spec.                           *)

\* the operator answered yes to the multi-valued question
SaidYes(answer) == answer.multi \in {<<"y">>, <<"Y">>}

\* the rule the operator asked for: the override if one was entered, else
\* the suggestion; multi-valued on yes, with the delimiter entered, or ", "
\* when the line entered is empty or blank
RuleAsked(suggested, answer) ==
    LET target == IF answer.user_input # "" THEN answer.user_input
                  ELSE suggested
    IN  IF SaidYes(answer)
        THEN MDict(TRUE, target, "str",
                   IF Strip(answer.delim) = <<>> THEN Comma
                   ELSE answer.delim)
        ELSE MStr(target)

\* C13: the loop takes the discovered tags one at a time in discovery order
\* and ends after the last one; each pass adds one rule for its tag, with
\* the operator's override or else the suggested target, multi-valued
\* exactly when the operator answered yes, with the entered delimiter or
\* ", " when none was entered.
C13_RulesAsAnswered ==
    [][\A p \in Procs, answer \in Answers :
          Answer(p, answer) =>
              LET h   == hs[p]
                  tag == h.tags[h.i]
              IN  /\ Len(h.new_mapping) = h.i - 1
                  /\ hs'[p].new_mapping =
                        Append(h.new_mapping,
                               [k |-> tag,
                                v |-> RuleAsked(Get(h.mapping, tag), answer)])
                  /\ (hpc'[p] # "interactive") = (h.i = Len(h.tags))
      ]_vars

---------------------------------------------------------------------------
(* Claims about who writes the store, under SpecStore.                     *)

\* C9: the store is written only by the interactive session's persistence:
\* a scan, successful or failing, and a helper run without the update flag,
\* on a feed without item or entry or on text that does not parse, leave
\* the store as it is.
C9_OnlySessionWrites ==
    [][/\ (\E es \in SpecFeeds, fid \in {"x", "q"} : ScanRun(es, fid))
            => file' = file
       /\ (\E src \in Sources, fid \in HelperFeedIds, u \in BOOLEAN :
              Analyze("p1", src, fid, u))
            => file' = file
       /\ file' # file => (PersistTruncate("p1") \/ PersistWrite("p1"))
      ]_vars

\* a scan has failed on an unknown feed id after a session had written the
\* store, and the store still holds what the session wrote
C9_Witness ==
    /\ sc.status = "error" /\ sc.raised = "ValueError"
    /\ Len(trace) = 3 /\ trace[3].op = "write"
    /\ file = JsonFile(trace[3].data)

---------------------------------------------------------------------------
(* Claims about a scan after a session, under SpecStore.                   *)

\* a session has written a rule set for feed_id, and no call has the file
\* open for writing now
Persisted(feed_id) ==
    /\ WritesFor(trace, feed_id) # {}
    /\ trace[Len(trace)].op # "trunc"

PersistedRules(feed_id) == trace[Max(WritesFor(trace, feed_id))].rules

\* a plain non-empty target, or an object with a non-empty target and a
\* non-empty join_with string
SessionRule(r) ==
    /\ r.hasTarget /\ r.target # ""
    /\ r.isdict => (r.jw = "str" /\ r.delim # <<>>)
    /\ ~r.isdict => r.jw = "absent"

\* C16: a rule set that an interactive session persisted for a feed_id is
\* resolved and applied by a later scan of that feed_id without error: each
\* rule is a non-empty target string, applied as single-valued, or holds a
\* non-empty target and a non-empty join_with, applied as multi-valued; the
\* scan does not fail and each record's keys are the rules' targets.
C16_SessionRulesScan ==
    [][\A es \in SpecFeeds, fid \in {"x", "q"} :
          (ScanRun(es, fid) /\ Persisted(fid)) =>
              LET rules == PersistedRules(fid) IN
              /\ \A i \in 1..Len(rules) :
                    /\ SessionRule(rules[i].v)
                    /\ IsMulti(rules[i].v) = rules[i].v.isdict
              /\ sc'.raised = "no" /\ sc'.status # "error"
              /\ sc'.mapping = rules
              /\ Len(sc'.articles) = Len(es)
              /\ \A i \in 1..Len(es) :
                    Keys(sc'.articles[i]) = Targets(rules)
      ]_vars

\* a scan of x has produced a record under the multi-valued rule a session
\* persisted for x
C16_Witness ==
    /\ sc.status = "saved" /\ sc.feed_id = "x"
    /\ WritesFor(trace, "x") # {}
    /\ sc.mapping = PersistedRules("x")
    /\ sc.mapping[1].k = "creator" /\ sc.mapping[1].v.isdict
    /\ Keys(sc.articles[1]) = Targets(sc.mapping)

===========================================================================
